---- MODULE Spec2Model ----
(***************************************************************************)
(* A model of the MNEE SDK API wrapper: the Express controllers, the error *)
(* handler and the MneeService facade, together with the token engine      *)
(* (@mnee/ts-sdk) the facade forwards to.  One HTTP request is followed    *)
(* from its arrival to its response.                                       *)
(***************************************************************************)
EXTENDS Integers, Sequences, FiniteSets, TLC

(***************************************************************************)
(* Bounds of the model.                                                    *)
(***************************************************************************)
MaxUtxos == 3         \* candidate outputs held by one address
MaxUtxoAmt == 3       \* largest token amount of one candidate output
MaxAmountLen == 2     \* characters of the ?amount= query value
MaxHexLen == 2        \* characters of a rawTxHex body value
MaxRequestLen == 2    \* entries of the request array of /api/config/validate
MaxWhole == 2         \* whole tokens of a decimal amount to convert
MaxAtomic == 20       \* small atomic amounts to convert, all are tried
MaxFeeLow == 20       \* low digits of the amounts a fee is looked up for
MaxInputs == 2        \* inputs of a transaction whose lookup may fail
MaxPageLen == 1       \* digits of the ?page= and ?size= query values
MaxPerFetch == 2      \* outputs the select-all loop asks the source for at once

(***************************************************************************)
(* JavaScript values.  A finite number is sign, integer part and a         *)
(* fractional part counted in units of 10^-FracDigits.                     *)
(***************************************************************************)
RECURSIVE Pow10(_)
Pow10(n) == IF n = 0 THEN 1 ELSE 10 * Pow10(n - 1)

Decimals == 5                          \* decimals of the token
FracDigits == Decimals + 2
FracOne == Pow10(FracDigits)

Undefined == [t |-> "undefined", k |-> "", neg |-> FALSE, i |-> 0, f |-> 0, s |-> <<>>]
Str(s) == [t |-> "string", k |-> "", neg |-> FALSE, i |-> 0, f |-> 0, s |-> s]
Num(neg, i, f) == [t |-> "number", k |-> "finite", neg |-> neg, i |-> i, f |-> f, s |-> <<>>]
IntNum(n) == IF n < 0 THEN Num(TRUE, -n, 0) ELSE Num(FALSE, n, 0)
NaN == [t |-> "number", k |-> "nan", neg |-> FALSE, i |-> 0, f |-> 0, s |-> <<>>]
Infinity == [t |-> "number", k |-> "inf", neg |-> FALSE, i |-> 0, f |-> 0, s |-> <<>>]
Bool(b) ==
  [t |-> "boolean", k |-> IF b THEN "true" ELSE "false", neg |-> FALSE, i |-> 0,
   f |-> 0, s |-> <<>>]

IsZero(v) == v.t = "number" /\ v.k = "finite" /\ v.i = 0 /\ v.f = 0

\* ToBoolean: undefined, false, "", 0, -0 and NaN are falsy
Truthy(v) ==
  CASE v.t = "undefined" -> FALSE
    [] v.t = "boolean" -> v.k = "true"
    [] v.t = "string" -> v.s # <<>>
    [] v.t = "number" -> v.k # "nan" /\ ~IsZero(v)
    [] OTHER -> TRUE

\* typeof v
TypeOf(v) == v.t

\* isFinite(v) for a number
IsFiniteNum(v) == v.t = "number" /\ v.k = "finite"

\* v <= 0 for a number (false for NaN)
LeZero(v) == v.t = "number" /\ v.k # "nan" /\ (v.neg \/ IsZero(v))

(***************************************************************************)
(* Number(string) on the characters the model sends in a query value.      *)
(***************************************************************************)
Digits == {"0", "1", "2"}
AmountChars == Digits \cup {"-", "a"}

DigitVal(c) == CASE c = "0" -> 0 [] c = "1" -> 1 [] c = "2" -> 2

AllDigits(s) == \A j \in 1..Len(s) : s[j] \in Digits

RECURSIVE DigitsVal(_)
DigitsVal(s) ==
  IF s = <<>> THEN 0
  ELSE DigitsVal(SubSeq(s, 1, Len(s) - 1)) * 10 + DigitVal(s[Len(s)])

NumberOf(v) ==
  CASE v.t = "number" -> v
    [] v.t = "undefined" -> NaN
    [] v.t = "string" ->
         IF v.s = <<>> THEN IntNum(0)
         ELSE IF AllDigits(v.s) THEN Num(FALSE, DigitsVal(v.s), 0)
         ELSE IF v.s[1] = "-" /\ Len(v.s) > 1 /\ AllDigits(Tail(v.s))
              THEN Num(TRUE, DigitsVal(Tail(v.s)), 0)
         ELSE NaN

(***************************************************************************)
(* Error messages: a fixed text followed by an optional numeric argument.  *)
(* message.includes(fragment) is modelled on the fixed texts.              *)
(***************************************************************************)
NoArg == <<>>
Msg(text, arg) == [text |-> text, arg |-> arg]
NoMsg == Msg("", NoArg)
\* the fragments the controllers look for inside a longer text
FragmentsIn(text) ==
  {text} \cup (IF text = "Invalid Bitcoin address: "
               THEN {"Invalid Bitcoin address"} ELSE {})
         \cup (IF text = "Invalid recipient address: "
               THEN {"Invalid recipient address"} ELSE {})
Includes(m, fragment) == fragment \in FragmentsIn(m.text)

MsgInvalidAddress(address) == Msg("Invalid Bitcoin address: ", <<address>>)
MsgInsufficient(max) == Msg("Insufficient MNEE balance. Max transfer amount: ", <<max>>)
MsgFetchFailed == Msg("fetch failed", NoArg)

(***************************************************************************)
(* The UTXO source: the candidate outputs of an address in score order.    *)
(***************************************************************************)
ValidAddresses == {"X", "Y"}
Addresses == ValidAddresses \cup {"", "bad"}

Utxo(id, amt) == [id |-> id, amt |-> amt]

CandidateLists ==
  UNION { { [j \in 1..n |-> Utxo(j, a[j])] : a \in [1..n -> 1..MaxUtxoAmt] }
          : n \in 0..MaxUtxos }

RECURSIVE SumAmt(_)
SumAmt(us) == IF us = <<>> THEN 0 ELSE us[1].amt + SumAmt(Tail(us))

\* total >= n, for an integer total >= 0 and a JavaScript number n
GeNum(total, n) ==
  CASE n.k = "nan" -> FALSE
    [] n.k = "inf" -> n.neg
    [] OTHER -> n.neg \/ total > n.i \/ (total = n.i /\ n.f = 0)

(***************************************************************************)
(* The engine's coin selection.                                            *)
(***************************************************************************)
Returned(v) == [ok |-> TRUE, value |-> v, message |-> NoMsg]
Thrown(v, m) == [ok |-> FALSE, value |-> v, message |-> m]

RECURSIVE SelectFrom(_, _, _, _)
SelectFrom(cands, target, acc, total) ==
  IF GeNum(total, target) \/ cands = <<>> THEN acc
  ELSE SelectFrom(Tail(cands), target, Append(acc, Head(cands)),
                  total + Head(cands).amt)

Prefixes(us) == { SubSeq(us, 1, n) : n \in 0..Len(us) }

EngineGetEnoughUtxos(address, target, cands) ==
  IF address \notin ValidAddresses THEN { Thrown(<<>>, MsgInvalidAddress(address)) }
  ELSE { Thrown(<<>>, MsgFetchFailed) } \cup
       IF target.k = "nan"
       THEN { Returned(p) : p \in Prefixes(cands) }
            \cup { Thrown(<<>>, MsgInsufficient(SumAmt(cands))) }
       ELSE LET sel == SelectFrom(cands, target, <<>>, 0)
            IN  IF GeNum(SumAmt(sel), target)
                THEN { Returned(sel) }
                ELSE { Thrown(<<>>, MsgInsufficient(SumAmt(cands))) }

(***************************************************************************)
(* Pages of the UTXO source.  The candidates are listed by score, which is *)
(* their position in the source; a source in "unpaged" mode answers its    *)
(* first page whatever page it is asked for.                               *)
(***************************************************************************)
DefaultPage == 1
DefaultSize == 10

Score(u) == u.id

Asc == <<"asc">>
Desc == <<"desc">>

\* the candidates in the order asked for, ascending when none is
Ordered(cands, order) ==
  IF order.t = "string" /\ order.s = Desc
  THEN [j \in 1..Len(cands) |-> cands[Len(cands) + 1 - j]]
  ELSE cands

\* a window that starts one output early on the pages after the first
WindowStartOverlapping(page, size) == IF page = 1 THEN 1 ELSE (page - 1) * size

WindowStart(page, size) == (page - 1) * size + 1

SourcePage(cands, page, size, order, mode) ==
  LET q == Ordered(cands, order)
      first == IF mode = "unpaged" THEN 1 ELSE WindowStart(page, size)
      end == IF first + size - 1 < Len(q) THEN first + size - 1 ELSE Len(q)
  IN  IF first > Len(q) THEN <<>> ELSE SubSeq(q, first, end)

ValueOr(v, default) == IF v.t = "number" /\ v.k = "finite" THEN v.i ELSE default

EngineGetUtxos(address, page, size, order, cands, mode) ==
  IF address \notin ValidAddresses THEN { Thrown(<<>>, MsgInvalidAddress(address)) }
  ELSE { Thrown(<<>>, MsgFetchFailed),
         Returned(SourcePage(cands, ValueOr(page, DefaultPage),
                             ValueOr(size, DefaultSize), order, mode)) }

\* a loop over the candidates of one address ends before this many fetches
\* when the source answers the page asked for; page numbers from here on
\* are not told apart, and no more outputs than these fetches give are kept
MaxFetches == MaxUtxos + 2

(***************************************************************************)
(* Strings of characters, String.prototype.trim and the hex pattern        *)
(* /^[0-9a-fA-F]+$/.                                                       *)
(***************************************************************************)
Strings(chars, maxLen) == UNION { [1..n -> chars] : n \in 0..maxLen }

Whitespace == {" "}

RECURSIVE TrimStart(_)
TrimStart(s) ==
  IF s # <<>> /\ Head(s) \in Whitespace THEN TrimStart(Tail(s)) ELSE s

RECURSIVE TrimEnd(_)
TrimEnd(s) ==
  IF s # <<>> /\ s[Len(s)] \in Whitespace
  THEN TrimEnd(SubSeq(s, 1, Len(s) - 1)) ELSE s

Trim(s) == TrimEnd(TrimStart(s))

HexChars == {"0", "1", "2", "3", "4", "5", "6", "7", "8", "9",
             "a", "b", "c", "d", "e", "f", "A", "B", "C", "D", "E", "F"}

HexPatternTest(s) == s # <<>> /\ \A j \in 1..Len(s) : s[j] \in HexChars

(***************************************************************************)
(* Token amounts: AmountConverter of the engine, with decimals = 5.        *)
(***************************************************************************)
AtomicPerToken == Pow10(Decimals)
FracPerAtomic == Pow10(FracDigits - Decimals)

IsNonNegative(v) == IsFiniteNum(v) /\ (~v.neg \/ IsZero(v))

\* a conversion that cuts the digits below one atomic unit off
AtomicOfTruncated(v) == v.i * AtomicPerToken + v.f \div FracPerAtomic

\* round(amount * 10^decimals), halves rounded up
AtomicOf(v) == v.i * AtomicPerToken + (v.f + FracPerAtomic \div 2) \div FracPerAtomic

\* a conversion that leaves the fraction in atomic units
DecimalOfUnscaled(a) == Num(FALSE, a \div AtomicPerToken, a % AtomicPerToken)

\* atomic / 10^decimals
DecimalOf(a) == Num(FALSE, a \div AtomicPerToken, (a % AtomicPerToken) * FracPerAtomic)

MsgInvalidAmount == Msg("InvalidAmount", NoArg)

\* a conversion that does not look at its input
EngineToAtomicAmountUnchecked(v) == Returned(AtomicOf(v))

EngineToAtomicAmount(v) ==
  IF IsNonNegative(v) THEN Returned(AtomicOf(v)) ELSE Thrown(0, MsgInvalidAmount)

EngineFromAtomicAmount(v) ==
  IF IsNonNegative(v) /\ v.f = 0 THEN Returned(DecimalOf(v.i))
  ELSE Thrown(Undefined, MsgInvalidAmount)

(***************************************************************************)
(* FeeSchedule.  Amounts up to 2^53 - 1 are written hi * 10^8 + lo.        *)
(***************************************************************************)
BigBase == Pow10(8)
Big(hi, lo) == [hi |-> hi, lo |-> lo]
BigLe(a, b) == a.hi < b.hi \/ (a.hi = b.hi /\ a.lo <= b.lo)
BigSucc(a) == IF a.lo = BigBase - 1 THEN Big(a.hi + 1, 0) ELSE Big(a.hi, a.lo + 1)

MaxSafeInteger == Big(90071992, 54740991)

FeeTier(min, max, fee) == [min |-> min, max |-> max, fee |-> fee]

\* a schedule whose second tier starts one unit late
FeeTiersWithGap ==
  << FeeTier(Big(0, 0), Big(0, 1000000), 100),
     FeeTier(Big(0, 1000002), MaxSafeInteger, 1000) >>

FeeTiers ==
  << FeeTier(Big(0, 0), Big(0, 1000000), 100),
     FeeTier(Big(0, 1000001), MaxSafeInteger, 1000) >>

InTier(t, amount) == BigLe(t.min, amount) /\ BigLe(amount, t.max)

MsgNoMatchingFeeTier == Msg("NoMatchingFeeTier", NoArg)

\* the fee of the first tier whose range holds the amount
EngineFeeFor(amount) ==
  LET matching == { j \in 1..Len(FeeTiers) : InTier(FeeTiers[j], amount) }
  IN  IF matching = {} THEN Thrown(0, MsgNoMatchingFeeTier)
      ELSE Returned(FeeTiers[CHOOSE j \in matching : \A l \in matching : j <= l].fee)

(***************************************************************************)
(* Transactions.  A raw transaction is a string of characters; the decoder *)
(* knows the transactions of TxTable.                                      *)
(***************************************************************************)
ApproverKey == "02bed35e894cc41cc9879b4002ad03d33533b615c1b476068c8dd6822a09f93f6c"
OtherKey == "02afce1e4a06a2136dbe5ae4aca13f39b093b569719d9a245fe49de7f194b84c79"
NoKey == ""

\* an output with a token payload declaring the operation op
TokenOp(op, address, amt, cosigner) ==
  [token |-> TRUE, op |-> op, address |-> address, amt |-> amt, cosigner |-> cosigner]
TokenOut(address, amt, cosigner) == TokenOp("transfer", address, amt, cosigner)
PlainOut(address) ==
  [token |-> FALSE, op |-> "", address |-> address, amt |-> 0, cosigner |-> NoKey]

\* an input, with the address and amount of the output it spends
TxIn(address, amt) == [address |-> address, amt |-> amt]

NoTx == [decoded |-> FALSE, txid |-> "", inputs |-> <<>>, outputs |-> <<>>]
Tx(txid, inputs, outputs) ==
  [decoded |-> TRUE, txid |-> txid, inputs |-> inputs, outputs |-> outputs]

TxChars == {"a", "b", "z", " "}

Decode(s) ==
  CASE s = <<"a", "a">> -> Tx("t1", <<TxIn("Y", 39900)>>,
                              <<TokenOut("X", 39900, ApproverKey)>>)
    [] s = <<"a", "b">> -> Tx("t2", <<TxIn("X", 50000), TxIn("X", 20000)>>,
                              <<TokenOut("Y", 30000, ApproverKey),
                                TokenOut("F", 100, ApproverKey),
                                TokenOut("X", 39900, ApproverKey),
                                PlainOut("Z")>>)
    [] s = <<"b", "a">> -> Tx("t3", <<TxIn("Y", 39900)>>,
                              <<TokenOut("X", 39900, OtherKey)>>)
    [] s = <<"b", "b">> -> Tx("t4", <<TxIn("Y", 69900)>>,
                              <<TokenOut("X", 39900, ApproverKey),
                                TokenOut("Y", 30000, NoKey)>>)
    [] s = <<"c", "a">> -> Tx("t5", <<TxIn("Z", 0)>>, <<PlainOut("Z")>>)
    [] s = <<"c", "b">> -> Tx("t6", <<TxIn("M", 1700)>>,
                              <<TokenOp("burn", "B", 500, ApproverKey),
                                TokenOp("mint", "X", 1000, ApproverKey),
                                TokenOut("Y", 200, ApproverKey)>>)
    [] s = <<"a", "c">> -> Tx("t7", <<TxIn("X", 500)>>,
                              <<TokenOp("burn", "B", 500, ApproverKey)>>)
    [] s = <<"b", "c">> -> Tx("t8", <<TxIn("X", 300), TxIn("Y", 200)>>,
                              <<TokenOp("burn", "B", 300, ApproverKey),
                                TokenOut("Y", 200, ApproverKey)>>)
    [] s = <<"c", "c">> -> Tx("t9", <<TxIn("M", 0)>>,
                              <<TokenOp("deploy", "M", 0, ApproverKey),
                                PlainOut("Z")>>)
    [] OTHER -> NoTx

\* the decoded form of a JavaScript value handed to the engine as raw hex
DecodeValue(v) == IF v.t = "string" THEN Decode(v.s) ELSE NoTx

TokenOutputs(tx) == { j \in 1..Len(tx.outputs) : tx.outputs[j].token }

CosignedByApprover(tx) ==
  \A j \in TokenOutputs(tx) : tx.outputs[j].cosigner = ApproverKey

MsgInvalidInput == Msg("InvalidInput", NoArg)
MsgInvalidCosigner == Msg("Invalid cosigner detected", NoArg)

\* an expected {address, amount} entry is met by some token output
EntryPresent(tx, e) ==
  \E j \in TokenOutputs(tx) :
     /\ e.address.t = "string"
     /\ e.address.s = <<tx.outputs[j].address>>
     /\ IsNonNegative(e.amount)
     /\ tx.outputs[j].amt = AtomicOf(e.amount)

EngineValidateMneeTx(rawTxHex, request) ==
  LET tx == DecodeValue(rawTxHex)
  IN  IF ~tx.decoded THEN { Thrown(FALSE, MsgInvalidInput) }
      ELSE IF ~CosignedByApprover(tx) THEN { Thrown(FALSE, MsgInvalidCosigner) }
      ELSE IF request.t = "undefined" THEN { Returned(TRUE) }
      ELSE { Returned(\A j \in 1..Len(request.items) :
                         EntryPresent(tx, request.items[j])) }

(***************************************************************************)
(* TransactionParser.  The inputs are resolved through the lookup          *)
(* collaborator; failed is the set of inputs whose lookup fails.           *)
(***************************************************************************)
Reverse(q) == [j \in 1..Len(q) |-> q[Len(q) + 1 - j]]

\* String(n) of a non-negative integer
DigitChar(d) == <<"0", "1", "2", "3", "4", "5", "6", "7", "8", "9">>[d + 1]

RECURSIVE DecimalString(_)
DecimalString(n) ==
  IF n < 10 THEN <<DigitChar(n)>>
  ELSE Append(DecimalString(n \div 10), DigitChar(n % 10))

\* the operations the token outputs declare
DeclaredOps(tx) == { tx.outputs[j].op : j \in TokenOutputs(tx) }

\* a burn has a recipient when some token output is a transfer
HasRecipient(tx) == "transfer" \in DeclaredOps(tx)

\* a classification that looks for a burn before it looks for a mint
ClassifyBurnFirst(tx) ==
  IF TokenOutputs(tx) = {} THEN "unknown"
  ELSE IF "burn" \in DeclaredOps(tx) /\ ~HasRecipient(tx) THEN "burn"
  ELSE IF "burn" \in DeclaredOps(tx) THEN "transfer"
  ELSE IF "mint" \in DeclaredOps(tx) THEN "mint"
  ELSE "transfer"

Classify(tx) ==
  IF TokenOutputs(tx) = {} THEN "unknown"
  ELSE IF "mint" \in DeclaredOps(tx) THEN "mint"
  ELSE IF "burn" \in DeclaredOps(tx) /\ ~HasRecipient(tx) THEN "burn"
  ELSE IF "deploy" \in DeclaredOps(tx) THEN "deploy"
  ELSE IF "redeem" \in DeclaredOps(tx) THEN "redeem"
  ELSE "transfer"

\* a validity flag that holds vacuously without token outputs
ParsedIsValidVacuous(tx) == CosignedByApprover(tx)

ParsedIsValid(tx) == TokenOutputs(tx) # {} /\ CosignedByApprover(tx)

UnknownAddress == "unknown"

\* a parser that leaves an unresolved input out
ParsedInputsSkipping(tx, failed) ==
  LET kept == SelectSeq([j \in 1..Len(tx.inputs) |-> j], LAMBDA j : j \notin failed)
  IN  [l \in 1..Len(kept) |-> <<tx.inputs[kept[l]].address, tx.inputs[kept[l]].amt>>]

ParsedInputs(tx, failed) ==
  [j \in 1..Len(tx.inputs) |->
     IF j \in failed THEN <<UnknownAddress, 0>>
     ELSE <<tx.inputs[j].address, tx.inputs[j].amt>>]

ParsedOutputs(tx) ==
  [j \in 1..Len(tx.outputs) |-> <<tx.outputs[j].address, tx.outputs[j].amt>>]

\* a parser that reports the outputs in either direction
ParsedOutputOrdersUnstable(tx) == {ParsedOutputs(tx), Reverse(ParsedOutputs(tx))}

\* the orders the parser reports the outputs in: the transaction's own
ParsedOutputOrders(tx) == {ParsedOutputs(tx)}

RECURSIVE SumPairs(_)
SumPairs(q) == IF q = <<>> THEN 0 ELSE q[1][2] + SumPairs(Tail(q))

Environment == "production"

ParsedTransaction(tx, outs, failed, raw, includeRaw) ==
  [txid |-> tx.txid,
   environment |-> Environment,
   type |-> Classify(tx),
   inputs |-> ParsedInputs(tx, failed),
   outputs |-> outs,
   isValid |-> ParsedIsValid(tx),
   inputTotal |-> DecimalString(SumPairs(ParsedInputs(tx, failed))),
   outputTotal |-> DecimalString(SumPairs(outs)),
   raw |-> IF Truthy(includeRaw) THEN raw ELSE Undefined]

NoParsed == [outputs |-> <<>>, isValid |-> FALSE]

EngineParseTxFromRawTx(rawTxHex, includeRaw, failed) ==
  LET tx == DecodeValue(rawTxHex)
  IN  IF ~tx.decoded THEN { Thrown(NoParsed, MsgInvalidInput) }
      ELSE { Returned(ParsedTransaction(tx, outs, failed, rawTxHex, includeRaw))
             : outs \in ParsedOutputOrders(tx) }

\* the raw transactions the transaction source knows, by txid
KnownRaws == { s \in [1..2 -> {"a", "b", "c"}] : Decode(s).decoded }

MsgTxNotFound == Msg("Failed to fetch transaction", NoArg)

EngineParseTx(txid, includeRaw, failed) ==
  { Thrown(NoParsed, MsgFetchFailed) } \cup
  IF \A s \in KnownRaws : Decode(s).txid # txid
  THEN { Thrown(NoParsed, MsgTxNotFound) }
  ELSE LET raw == CHOOSE s \in KnownRaws : Decode(s).txid = txid
       IN  EngineParseTxFromRawTx(Str(raw), includeRaw, failed)

MsgSubmitFailed == Msg("Failed to submit transaction: 400", NoArg)

\* broadcasting is the cosigner service's work: any outcome is possible
EngineSubmitRawTx(rawTxHex) ==
  { Returned("ticket"), Thrown("", MsgSubmitFailed), Thrown("", MsgFetchFailed) }

MsgInvalidRecipient(address) == Msg("Invalid recipient address: ", <<address>>)
MsgInvalidWif == Msg("Invalid WIF key", NoArg)

\* building, cosigning and broadcasting a transfer is the work of the engine
\* and the cosigner service: any outcome is possible
EngineTransfer(request, wif, transferOptions) ==
  { Returned("ticket"), Thrown("", MsgInvalidWif), Thrown("", MsgInvalidRecipient("X")),
    Thrown("", MsgInsufficient(0)), Thrown("", MsgFetchFailed) }

\* the static configuration the client is constructed with
LoadedConfig ==
  [decimals |-> Decimals, approver |-> ApproverKey, feeAddress |-> "F",
   burnAddress |-> "B", mintAddress |-> "M", tokenId |-> "token_0",
   fees |-> FeeTiers]

\* mnee.config(): the configuration the client holds, unless reading it fails
EngineConfig(c) == { Returned(c), Thrown("", MsgFetchFailed) }

\* the statusCode a thrown error carries when it reaches the catch block:
\* none, or one its thrower gave it
CarriedStatuses == {0, 404}

(***************************************************************************)
(* State: one request on its way through the application.                  *)
(***************************************************************************)
\* pc        "idle", "app" (the application middleware), "route" (the
\*           middleware of the route), "recv" (the controller), "await",
\*           "errorHandler" or "done"
\* req       the request being handled
\* utxoSet   the candidate outputs the UTXO source holds during the request
\* call      the MneeService call the controller made
\* err       the error handed to next()
\* res       the response sent
\* feeProbe  the last fee lookup made of the engine, and its outcome
\* failedLookups  the inputs whose previous output the lookup collaborator
\*           does not find during the request
\* sourceMode  "paged" when the UTXO source answers the page asked for,
\*           "unpaged" when it answers its first page whatever page is asked
\* selectAll the state of the engine's select-all loop
\* last      a previous successful exchange, remembered while the same
\*           question is asked again
\* calls     the MneeService calls the controller has made for the request
\* nexted    the errors handed to next() for the request
\* sent      the responses sent for the request
\* config    the configuration held by the client of the MneeService singleton
\* http      the method, the Content-Type header and the query keys of the
\*           request that the controller does not read
\* parked    the requests in flight that wait at an await while the event
\*           loop runs another one
VARIABLES pc, req, utxoSet, call, err, res, feeProbe, failedLookups, sourceMode,
          selectAll, last, calls, nexted, sent, config, http, parked

aux == <<failedLookups, sourceMode, selectAll, last, config, http, parked>>

vars == <<pc, req, utxoSet, call, err, res, feeProbe, aux, calls, nexted, sent>>

\* the request array of a validate body: absent, not an array, or an array
NoRequest == [t |-> "undefined", items |-> <<>>]
NotAnArray == [t |-> "object", items |-> <<>>]
ArrayOf(items) == [t |-> "array", items |-> items]

Req(op, address, amount, rawTxHex, request) ==
  [op |-> op, address |-> address, amount |-> amount, rawTxHex |-> rawTxHex,
   request |-> request]
Call(fn, address, amount, rawTxHex, request) ==
  [fn |-> fn, address |-> address, amount |-> amount, rawTxHex |-> rawTxHex,
   request |-> request]

\* the requests and calls of the parse routes and of the page route
ParseReq(op, txid, rawTxHex, includeRaw) ==
  [op |-> op, txid |-> txid, rawTxHex |-> rawTxHex, includeRaw |-> includeRaw]
ParseCall(fn, txid, rawTxHex, includeRaw) ==
  [fn |-> fn, txid |-> txid, rawTxHex |-> rawTxHex, includeRaw |-> includeRaw]
PageReq(address, page, size, order) ==
  [op |-> "getUtxos", address |-> address, page |-> page, size |-> size,
   order |-> order]
PageCall(address, page, size, order) ==
  [fn |-> "getUtxos", address |-> address, page |-> page, size |-> size,
   order |-> order]

\* the request and the call of the transfer route
TransferReq(request, wif, transferOptions) ==
  [op |-> "transfer", request |-> request, wif |-> wif,
   transferOptions |-> transferOptions]
TransferCall(request, wif, transferOptions) ==
  [fn |-> "transfer", request |-> request, wif |-> wif,
   transferOptions |-> transferOptions]

NoReq == Req("", "", Undefined, Undefined, NoRequest)
NoCall == Call("", "", Undefined, Undefined, NoRequest)
NoErr == [message |-> NoMsg, carried |-> 0, statusCode |-> 0]
NoRes == [status |-> 0, success |-> FALSE, keys |-> {}, data |-> <<>>,
          message |-> NoMsg, error |-> NoMsg]

\* res.json({ success: true, data })
JsonData(data) ==
  [status |-> 200, success |-> TRUE, keys |-> {"success", "data"}, data |-> data,
   message |-> NoMsg, error |-> NoMsg]
\* res.status(status).json({ success: false, message })
JsonMessage(status, m) ==
  [status |-> status, success |-> FALSE, keys |-> {"success", "message"},
   data |-> <<>>, message |-> m, error |-> NoMsg]
\* res.status(status).json({ success: false, error })
JsonError(status, e) ==
  [status |-> status, success |-> FALSE, keys |-> {"success", "error"},
   data |-> <<>>, message |-> NoMsg, error |-> e]

QueryAmounts == {Undefined} \cup { Str(s) : s \in Strings(AmountChars, MaxAmountLen) }

RawTxValues == {Undefined, IntNum(1)} \cup { Str(s) : s \in Strings(TxChars, MaxHexLen) }

ItemAddresses == {Undefined, Str(<<" ">>), Str(<<"X">>), Str(<<"Y">>)}
ItemAmounts == {Num(FALSE, 0, 3990000), Num(FALSE, 0, 4000000), IntNum(0),
                Str(<<"1">>)}

NullItem == [t |-> "null", address |-> Undefined, amount |-> Undefined]
Item(address, amount) == [t |-> "object", address |-> address, amount |-> amount]
Items == {NullItem} \cup { Item(a, m) : a \in ItemAddresses, m \in ItemAmounts }

RequestValues ==
  {NoRequest, NotAnArray} \cup { ArrayOf(is) : is \in Strings(Items, MaxRequestLen) }

WholeParts == (0..MaxWhole) \cup {100}
FracParts == {0, 49, 50, 99, 100, 149, 150, 3990000, 4000000, 5000000, 9999949, 9999950}

DecimalAmounts ==
  { Num(neg, i, f) : neg \in BOOLEAN, i \in WholeParts, f \in FracParts }

AtomicParts == (0..MaxAtomic) \cup {39900, 99999, 100000, 150000, 10000000}

AtomicAmounts ==
  { Num(neg, i, f) : neg \in BOOLEAN, i \in AtomicParts, f \in {0, 5000000} }

NonNumbers == {Undefined, Str(<<"1">>), Str(<<>>)}

\* the rawTxHex values of a parse request: those of the other routes and the
\* transactions only the parser tells apart
ParseRawValues == RawTxValues \cup { Str(s) : s \in KnownRaws }

IncludeRawValues == {Undefined, Bool(TRUE), Bool(FALSE)}
IncludeRawQueries == {Undefined, Str(<<"true">>), Str(<<"false">>)}

Txids == {"t0"} \cup { Decode(s).txid : s \in KnownRaws }

LookupFailures == SUBSET (1..MaxInputs)

PageQueries ==
  {Undefined, Str(<<>>)} \cup
  { Str(q) : q \in { d \in Strings(Digits, MaxPageLen) : d # <<>> /\ DigitsVal(d) >= 1 } }

OrderQueries == {Undefined, Str(Asc), Str(Desc)}

\* one list of candidates of each length, for the requests that page
ScoreLists == { [j \in 1..n |-> Utxo(j, 1 + (j % MaxUtxoAmt))] : n \in 0..MaxUtxos }

SourceModes == {"paged", "unpaged"}

TransferRequests ==
  {NoRequest, NotAnArray, ArrayOf(<<>>),
   ArrayOf(<<Item(Str(<<"X">>), Num(FALSE, 0, 3990000))>>)}
Wifs == {Undefined, Str(<<>>), Str(<<"w">>)}
TransferOptions == {Undefined, Bool(TRUE)}

\* Content-Type headers, written as the pieces they are made of; none is <<>>
JsonType == "application/json"
ContentTypes ==
  {<<>>, <<JsonType>>, <<JsonType, "; charset=utf-8">>, <<"text/plain">>,
   <<"Application/JSON">>}

\* the method of each route
PostOps ==
  {"validateMneeTx", "submitRawTx", "parseTxFromRaw", "transfer", "toAtomicAmount",
   "fromAtomicAmount"}
MethodOf(op) == IF op \in PostOps THEN "POST" ELSE "GET"

Http(method, contentType, otherKeys) ==
  [method |-> method, contentType |-> contentType, otherKeys |-> otherKeys]
NoHttp == Http("", <<>>, <<>>)

\* the headers of a request made as the route documents it
PlainHttp(op) ==
  Http(MethodOf(op), IF op \in PostOps THEN <<JsonType>> ELSE <<>>, <<>>)

\* query keys a request can carry beside those its controller reads
OtherKeys(op) ==
  {<<>>, <<"foo">>, <<"foo", "bar">>} \cup
  (IF op = "getEnoughUtxos" THEN {<<"page">>, <<"foo", "size">>} ELSE {}) \cup
  (IF op = "getUtxos" THEN {<<"amount">>, <<"amount", "foo">>} ELSE {})

\* one request of each route, for the requests whose headers vary
HeaderProbes ==
  { Req("getEnoughUtxos", "X", Str(<<"1">>), Undefined, NoRequest),
    Req("getEnoughUtxos", "X", Undefined, Undefined, NoRequest),
    PageReq("X", Str(<<"1">>), Undefined, Str(Asc)),
    PageReq("X", Undefined, Undefined, Undefined),
    Req("getAllUtxos", "X", Undefined, Undefined, NoRequest),
    ParseReq("parseTx", "t1", Undefined, Undefined),
    [op |-> "getConfig"],
    Req("validateMneeTx", "", Undefined, Str(<<"a", "a">>), NoRequest),
    Req("submitRawTx", "", Undefined, Str(<<"a", "a">>), NoRequest),
    ParseReq("parseTxFromRaw", "", Str(<<"a", "a">>), Undefined),
    TransferReq(ArrayOf(<<>>), Str(<<"w">>), Undefined),
    Req("toAtomicAmount", "", IntNum(1), Undefined, NoRequest),
    Req("fromAtomicAmount", "", IntNum(1), Undefined, NoRequest) }

NoProbe == [asked |-> FALSE, amount |-> Big(0, 0), outcome |-> Returned(0)]

\* the select-all loop before its first fetch
NoLoop == [page |-> 1, acc |-> <<>>, odd |-> FALSE, ended |-> FALSE]

NoLast == [req |-> [op |-> ""]]

\* the mark that the previous request failed, kept while the configuration
\* is read
FailedLast == [req |-> [op |-> "failed"]]

\* the operations whose failure is marked for the configuration request
\* that follows
FailureMarkedOps == {"transfer", "submitRawTx", "getConfig"}

\* the operations whose previous exchange is remembered
ObservedOps == {"parseTxFromRaw", "parseTx", "getUtxos"}

\* request r over candidates us asks what the remembered exchange asked:
\* the same transaction to parse, or the same page of the same size of the
\* same candidates
Repeats(r, us) ==
  \/ r.op = "getConfig" /\ last = FailedLast
  \/ /\ r.op = last.req.op
     /\ CASE r.op = "parseTxFromRaw" -> r.rawTxHex = last.req.rawTxHex
          [] r.op = "parseTx" -> r.txid = last.req.txid
          [] r.op = "getUtxos" -> /\ r.address = last.req.address
                                  /\ r.page = last.req.page
                                  /\ r.size = last.req.size
                                  /\ us = last.utxoSet
          [] OTHER -> FALSE

Init ==
  /\ pc = "idle"
  /\ req = NoReq
  /\ utxoSet = <<>>
  /\ call = NoCall
  /\ err = NoErr
  /\ res = NoRes
  /\ feeProbe = NoProbe
  /\ failedLookups = {}
  /\ sourceMode = "paged"
  /\ selectAll = NoLoop
  /\ last = NoLast
  /\ calls = 0
  /\ nexted = 0
  /\ sent = 0
  /\ config = LoadedConfig
  /\ http = NoHttp
  /\ parked = <<>>

\* a request arrives with headers h and is taken up at stage; us, failed and
\* mode are what the collaborators hold while the request is handled
Arrive(r, us, failed, mode, h, stage) ==
  /\ req' = r
  /\ utxoSet' = us
  /\ failedLookups' = failed
  /\ sourceMode' = mode
  /\ http' = h
  /\ last = NoLast \/ Repeats(r, us)
  /\ pc' = stage
  /\ UNCHANGED <<call, calls, err, nexted, res, sent, feeProbe, selectAll, last, config,
                  parked>>

\* a request made as its route documents it: a POST with a JSON body, and
\* no query key but those the controller reads.  The middleware in front of
\* the controller calls next() for it, so it is taken up at the controller
AcceptWith(r, us, failed, mode) ==
  Arrive(r, us, failed, mode, PlainHttp(r.op), "recv")

Accept(r, us) == AcceptWith(r, us, {}, "paged")

\* GET /api/utxos/:address/enough?amount=
ReceiveEnough ==
  /\ pc = "idle"
  /\ last = NoLast
  /\ \E a \in Addresses, q \in QueryAmounts, us \in CandidateLists :
       Accept(Req("getEnoughUtxos", a, q, Undefined, NoRequest), us)

\* POST /api/config/validate
ReceiveValidate ==
  /\ pc = "idle"
  /\ last = NoLast
  /\ \E h \in RawTxValues, r \in RequestValues :
       Accept(Req("validateMneeTx", "", Undefined, h, r), <<>>)

\* POST /api/transaction/submit-rawtx
ReceiveRawTx ==
  /\ pc = "idle"
  /\ last = NoLast
  /\ \E h \in RawTxValues :
       Accept(Req("submitRawTx", "", Undefined, h, NoRequest), <<>>)

\* POST /api/parse/from-raw: any request, or after a remembered exchange one
\* for the same transaction
ReceiveParseFromRaw ==
  /\ pc = "idle"
  /\ \/ /\ last = NoLast
        /\ \E h \in ParseRawValues, inc \in IncludeRawValues, failed \in LookupFailures :
             AcceptWith(ParseReq("parseTxFromRaw", "", h, inc), <<>>, failed, "paged")
     \/ /\ last.req.op = "parseTxFromRaw"
        /\ \E inc \in IncludeRawValues, failed \in LookupFailures :
             AcceptWith(ParseReq("parseTxFromRaw", "", last.req.rawTxHex, inc),
                        <<>>, failed, "paged")

\* GET /api/parse/:txid?includeRaw=
ReceiveParseTx ==
  /\ pc = "idle"
  /\ \/ /\ last = NoLast
        /\ \E id \in Txids, inc \in IncludeRawQueries, failed \in LookupFailures :
             AcceptWith(ParseReq("parseTx", id, Undefined, inc), <<>>, failed, "paged")
     \/ /\ last.req.op = "parseTx"
        /\ \E inc \in IncludeRawQueries, failed \in LookupFailures :
             AcceptWith(ParseReq("parseTx", last.req.txid, Undefined, inc),
                        <<>>, failed, "paged")

\* GET /api/utxos/paginated/:address?page=&size=&order=: any request, or
\* after a remembered exchange one for the same page of the same candidates
ReceivePage ==
  /\ pc = "idle"
  /\ \/ /\ last = NoLast
        /\ \E a \in Addresses, p \in PageQueries, z \in PageQueries,
              o \in OrderQueries, us \in ScoreLists :
             Accept(PageReq(a, p, z, o), us)
     \/ /\ last.req.op = "getUtxos"
        /\ \E o \in OrderQueries :
             Accept(PageReq(last.req.address, last.req.page, last.req.size, o),
                    last.utxoSet)

\* GET /api/utxos/:address/all
ReceiveAll ==
  /\ pc = "idle"
  /\ last = NoLast
  /\ \E a \in Addresses, us \in CandidateLists, mode \in SourceModes :
       AcceptWith(Req("getAllUtxos", a, Undefined, Undefined, NoRequest), us, {}, mode)

\* a request of any route with any Content-Type and other query keys
ReceiveWithHeaders ==
  /\ pc = "idle"
  /\ last = NoLast
  /\ \E r \in HeaderProbes, ct \in ContentTypes :
       \E ks \in OtherKeys(r.op) :
          Arrive(r, <<Utxo(1, 2)>>, {}, "paged", Http(MethodOf(r.op), ct, ks), "app")

\* GET /api/config, also right after a request that failed
ReceiveConfig ==
  /\ pc = "idle"
  /\ last \in {NoLast, FailedLast}
  /\ Accept([op |-> "getConfig"], <<>>)

\* POST /api/transaction/transfer
ReceiveTransfer ==
  /\ pc = "idle"
  /\ last = NoLast
  /\ \E r \in TransferRequests, w \in Wifs, o \in TransferOptions :
       Accept(TransferReq(r, w, o), <<>>)

\* POST /api/config/to-atomic
ReceiveToAtomic ==
  /\ pc = "idle"
  /\ last = NoLast
  /\ \E v \in DecimalAmounts \cup NonNumbers \cup {NaN, Infinity} :
       Accept(Req("toAtomicAmount", "", v, Undefined, NoRequest), <<>>)

\* POST /api/config/from-atomic
ReceiveFromAtomic ==
  /\ pc = "idle"
  /\ last = NoLast
  /\ \E v \in AtomicAmounts \cup NonNumbers \cup {NaN, Infinity} :
       Accept(Req("fromAtomicAmount", "", v, Undefined, NoRequest), <<>>)

\* a response after which the handler goes on and responds again
RespondAndFallThrough(r) ==
  /\ res' = r
  /\ sent' = sent + 2
  /\ pc' = "done"

Respond(r) ==
  /\ res' = r
  /\ sent' = sent + 1
  /\ pc' = "done"

CallService(c) ==
  /\ call' = c
  /\ calls' = calls + 1
  /\ pc' = "await"

\* a catch block that runs the handler again instead of handing the error on
NextErrorRetrying(e, statusCode) ==
  /\ pc' = "recv"
  /\ UNCHANGED <<err, nexted>>

\* the error object the catch block receives
ThrownError(out, carried) == [message |-> out.message, carried |-> carried]

\* next(error), the error holding statusCode
NextError(e, statusCode) ==
  /\ err' = [message |-> e.message, carried |-> e.carried, statusCode |-> statusCode]
  /\ nexted' = nexted + 1
  /\ pc' = "errorHandler"

(***************************************************************************)
(* app.js: the Content-Type middleware; middleware/validateQueryParams     *)
(***************************************************************************)
\* contentType.includes('application/json')
IncludesJson(contentType) ==
  \E j \in 1..Len(contentType) : contentType[j] = JsonType

\* a check that leaves the method out
ContentTypeRejectedAnyMethod(method, contentType) == ~IncludesJson(contentType)

ContentTypeRejected(method, contentType) ==
  method \in {"POST"} /\ ~IncludesJson(contentType)

MsgInvalidContentType == Msg("Invalid Content-Type. Expected application/json", NoArg)

\* the allowed lists of the routes that validate their query
AllowedParams(op) ==
  CASE op = "getUtxos" -> <<"page", "size", "order">>
    [] op = "getEnoughUtxos" -> <<"amount">>
ValidatedOps == {"getUtxos", "getEnoughUtxos"}

ContentTypeCheck ==
  /\ pc = "app"
  /\ IF ContentTypeRejected(http.method, http.contentType)
     THEN Respond(JsonMessage(400, MsgInvalidContentType))
     ELSE /\ pc' = IF req.op \in ValidatedOps THEN "route" ELSE "recv"
          /\ UNCHANGED <<res, sent>>
  /\ UNCHANGED <<req, utxoSet, call, calls, err, nexted, feeProbe, aux>>

\* Object.keys(req.query): the keys the controller reads that are present,
\* then the other keys
Range(q) == { q[j] : j \in 1..Len(q) }

KeyIf(present, key) == IF present THEN <<key>> ELSE <<>>

QueryKeys(r, h) ==
  (CASE r.op = "getUtxos" ->
          KeyIf(r.page # Undefined, "page") \o KeyIf(r.size # Undefined, "size")
            \o KeyIf(r.order # Undefined, "order")
     [] r.op = "getEnoughUtxos" -> KeyIf(r.amount # Undefined, "amount")
     [] OTHER -> <<>>) \o h.otherKeys

\* a filter that keeps the allowed keys
InvalidParamsInverted(queryKeys, allowedParams) ==
  SelectSeq(queryKeys, LAMBDA key : key \in Range(allowedParams))

\* queryKeys.filter(key => !allowedParams.includes(key))
InvalidParams(queryKeys, allowedParams) ==
  SelectSeq(queryKeys, LAMBDA key : key \notin Range(allowedParams))

MsgInvalidQuery(invalidParams, allowedParams) ==
  [text |-> "Invalid query parameter(s): ", arg |-> NoArg,
   invalid |-> invalidParams, allowed |-> allowedParams]

ValidateQueryParams ==
  /\ pc = "route"
  /\ LET allowedParams == AllowedParams(req.op)
         invalidParams == InvalidParams(QueryKeys(req, http), allowedParams)
     IN  IF Len(invalidParams) > 0
         THEN Respond(JsonMessage(400, MsgInvalidQuery(invalidParams, allowedParams)))
         ELSE /\ pc' = "recv"
              /\ UNCHANGED <<res, sent>>
  /\ UNCHANGED <<req, utxoSet, call, calls, err, nexted, feeProbe, aux>>

(***************************************************************************)
(* utxoController.getEnoughUtxos                                           *)
(***************************************************************************)
\* a target grossed up by one unit of fee
EnoughTargetGrossedUp(amount) ==
  LET n == NumberOf(amount)
  IN  IF n.k = "finite" /\ ~n.neg THEN Num(FALSE, n.i + 1, n.f) ELSE n

\* the target handed to the service: Number(amount)
EnoughTarget(amount) == NumberOf(amount)

\* a catch block that sets a status only on an error that carries none
StatusCodeSetIfAbsent(carried, statusCode) ==
  IF carried # 0 THEN carried ELSE statusCode

\* error.statusCode = statusCode: what the error carried is replaced
StatusCodeSet(carried, statusCode) == statusCode

\* the status the catch block stores in the error
AddressErrorStatus(m) == IF Includes(m, "Invalid Bitcoin address") THEN 400 ELSE 500

GetEnoughUtxos ==
  /\ pc = "recv"
  /\ req.op = "getEnoughUtxos"
  /\ IF req.address = "" \/ ~Truthy(req.amount)
     THEN /\ Respond(JsonMessage(400, Msg("Address and amount are required", NoArg)))
          /\ UNCHANGED <<call, calls, err, nexted>>
     ELSE /\ CallService(Call("getEnoughUtxos", req.address,
                               EnoughTarget(req.amount), Undefined, NoRequest))
          /\ UNCHANGED <<err, nexted, res, sent>>
  /\ UNCHANGED <<req, utxoSet, feeProbe, aux>>

GetEnoughUtxosSettle ==
  /\ pc = "await"
  /\ call.fn = "getEnoughUtxos"
  /\ \E out \in EngineGetEnoughUtxos(call.address, call.amount, utxoSet) :
       IF out.ok
       THEN Respond(JsonData(out.value)) /\ UNCHANGED <<err, nexted>>
       ELSE \E carried \in CarriedStatuses :
              NextError(ThrownError(out, carried),
                      StatusCodeSet(carried, AddressErrorStatus(out.message))) /\ UNCHANGED <<res, sent>>
  /\ UNCHANGED <<req, utxoSet, call, calls, feeProbe, aux>>

(***************************************************************************)
(* utxoController.getUtxos                                                 *)
(***************************************************************************)
\* page ? Number(page) : undefined
PageArg(page) == IF Truthy(page) THEN NumberOf(page) ELSE Undefined

\* a call that leaves the size out
SizeArgDropped(size) == Undefined

\* size ? Number(size) : undefined
SizeArg(size) == IF Truthy(size) THEN NumberOf(size) ELSE Undefined

\* a call that asks for descending order when the caller names none
OrderArgDescending(order) == IF order.t = "undefined" THEN Str(Desc) ELSE order

OrderArg(order) == order

GetUtxosCall(r) ==
  PageCall(r.address, PageArg(r.page), SizeArg(r.size), OrderArg(r.order))

GetUtxos ==
  /\ pc = "recv"
  /\ req.op = "getUtxos"
  /\ IF req.address = ""
     THEN /\ Respond(JsonMessage(400, Msg("Address is required", NoArg)))
          /\ UNCHANGED <<call, calls, err, nexted>>
     ELSE /\ CallService(GetUtxosCall(req))
          /\ UNCHANGED <<err, nexted, res, sent>>
  /\ UNCHANGED <<req, utxoSet, feeProbe, aux>>

GetUtxosSettle ==
  /\ pc = "await"
  /\ call.fn = "getUtxos"
  /\ \E out \in EngineGetUtxos(call.address, call.page, call.size, call.order,
                                utxoSet, sourceMode) :
       IF out.ok
       THEN Respond(JsonData(out.value)) /\ UNCHANGED <<err, nexted>>
       ELSE \E carried \in CarriedStatuses :
              NextError(ThrownError(out, carried),
                      StatusCodeSet(carried, AddressErrorStatus(out.message))) /\ UNCHANGED <<res, sent>>
  /\ UNCHANGED <<req, utxoSet, call, calls, feeProbe, aux>>

(***************************************************************************)
(* utxoController.getAllUtxos.  The engine's loop fetches one page of the  *)
(* source per step and ends at the first page that comes back empty.       *)
(***************************************************************************)
GetAllUtxos ==
  /\ pc = "recv"
  /\ req.op = "getAllUtxos"
  /\ IF req.address = ""
     THEN /\ Respond(JsonMessage(400, Msg("Address is required", NoArg)))
          /\ UNCHANGED <<call, calls, err, nexted>>
     ELSE /\ CallService(Call("getAllUtxos", req.address, Undefined, Undefined,
                               NoRequest))
          /\ UNCHANGED <<err, nexted, res, sent>>
  /\ UNCHANGED <<req, utxoSet, feeProbe, aux>>

NextPage(page) == IF page < MaxFetches THEN page + 1 ELSE page

\* the outputs gathered so far, with those of one more page
Gathered(acc, page) ==
  IF Len(acc) + Len(page) <= MaxFetches * MaxPerFetch THEN acc \o page ELSE acc

\* one fetch of the loop; odd tells an odd number of fetches from an even one
FetchPage ==
  /\ pc = "await"
  /\ call.fn = "getAllUtxos"
  /\ ~selectAll.ended
  /\ \E out \in EngineGetUtxos(call.address, IntNum(selectAll.page),
                                IntNum(MaxPerFetch), Undefined, utxoSet, sourceMode) :
       IF out.ok
       THEN /\ selectAll' =
                 IF out.value = <<>>
                 THEN [selectAll EXCEPT !.ended = TRUE, !.odd = ~@]
                 ELSE [selectAll EXCEPT !.page = NextPage(@),
                                        !.acc = Gathered(@, out.value),
                                        !.odd = ~@]
            /\ UNCHANGED <<pc, err, nexted>>
       ELSE /\ \E carried \in CarriedStatuses :
                 NextError(ThrownError(out, carried),
                           StatusCodeSet(carried, AddressErrorStatus(out.message)))
            /\ UNCHANGED selectAll
  /\ UNCHANGED <<req, utxoSet, call, calls, res, sent, feeProbe, failedLookups, sourceMode, last,
                  config, http, parked>>

GetAllUtxosSettle ==
  /\ pc = "await"
  /\ call.fn = "getAllUtxos"
  /\ selectAll.ended
  /\ Respond(JsonData(selectAll.acc))
  /\ UNCHANGED <<req, utxoSet, call, calls, err, nexted, feeProbe, aux>>

(***************************************************************************)
(* configController.validateMneeTx                                         *)
(***************************************************************************)
RejectsRawTxHex(h) ==
  ~Truthy(h) \/ TypeOf(h) # "string" \/ Trim(h.s) = <<>>

RejectsItem(item) == item.t # "object"

RejectsItemAddress(item) ==
  ~Truthy(item.address) \/ TypeOf(item.address) # "string"
    \/ Trim(item.address.s) = <<>>

RejectsItemAmount(item) ==
  TypeOf(item.amount) # "number" \/ LeZero(item.amount) \/ ~IsFiniteNum(item.amount)

ItemRejection(item, j) ==
  IF RejectsItem(item) THEN Msg("Invalid request item at index ", <<j - 1>>)
  ELSE IF RejectsItemAddress(item)
       THEN Msg("Request address is required at index ", <<j - 1>>)
  ELSE IF RejectsItemAmount(item)
       THEN Msg("Amount should be positive number at index ", <<j - 1>>)
  ELSE NoMsg

\* the first early return of the request loop, NoMsg when the loop completes
RECURSIVE LoopRejection(_, _)
LoopRejection(items, j) ==
  IF j > Len(items) THEN NoMsg
  ELSE IF ItemRejection(items[j], j) # NoMsg THEN ItemRejection(items[j], j)
  ELSE LoopRejection(items, j + 1)

\* the 400 the pre-checks answer with, NoMsg when the body passes them
ValidateRejection(h, request) ==
  IF RejectsRawTxHex(h) THEN Msg("Transaction Hex is required", NoArg)
  ELSE IF ~HexPatternTest(Trim(h.s)) THEN Msg("Invalid transaction hex format", NoArg)
  ELSE IF request.t = "undefined" THEN NoMsg
  ELSE IF request.t # "array" THEN Msg("Request must be an array", NoArg)
  ELSE IF Len(request.items) = 0 THEN Msg("Request array cannot be empty", NoArg)
  ELSE LoopRejection(request.items, 1)

\* a call that leaves the expected recipients out
ValidateCallWithoutRequest(h, request) ==
  Call("validateMneeTx", "", Undefined, h, NoRequest)

\* mneeService.validateMneeTx(rawTxHex, request)
ValidateCall(h, request) == Call("validateMneeTx", "", Undefined, h, request)

\* a catch block that knows no client error
CosignerErrorStatusGeneric(m) == 500

CosignerErrorStatus(m) == IF m = MsgInvalidCosigner THEN 400 ELSE 500

ValidateMneeTx ==
  /\ pc = "recv"
  /\ req.op = "validateMneeTx"
  /\ IF ValidateRejection(req.rawTxHex, req.request) # NoMsg
     THEN /\ Respond(JsonError(400, ValidateRejection(req.rawTxHex, req.request)))
          /\ UNCHANGED <<call, calls, err, nexted>>
     ELSE /\ CallService(ValidateCall(req.rawTxHex, req.request))
          /\ UNCHANGED <<err, nexted, res, sent>>
  /\ UNCHANGED <<req, utxoSet, feeProbe, aux>>

ValidateMneeTxSettle ==
  /\ pc = "await"
  /\ call.fn = "validateMneeTx"
  /\ \E out \in EngineValidateMneeTx(call.rawTxHex, call.request) :
       IF out.ok
       THEN Respond(JsonData(out.value)) /\ UNCHANGED <<err, nexted>>
       ELSE \E carried \in CarriedStatuses :
              NextError(ThrownError(out, carried),
                      StatusCodeSet(carried, CosignerErrorStatus(out.message))) /\ UNCHANGED <<res, sent>>
  /\ UNCHANGED <<req, utxoSet, call, calls, feeProbe, aux>>

(***************************************************************************)
(* parseController.parseTx and parseTxFromRaw                              *)
(***************************************************************************)
\* an option that is set whatever the query says
IncludeRawOfQuerySet(includeRaw) == Bool(TRUE)

\* includeRaw === 'true'
IncludeRawOfQuery(includeRaw) == Bool(includeRaw = Str(<<"true">>))

ParseTx ==
  /\ pc = "recv"
  /\ req.op = "parseTx"
  /\ CallService(ParseCall("parseTx", req.txid, Undefined,
                           IncludeRawOfQuery(req.includeRaw)))
  /\ UNCHANGED <<req, utxoSet, err, nexted, res, sent, feeProbe, aux>>

ParseTxSettle ==
  /\ pc = "await"
  /\ call.fn = "parseTx"
  /\ \E out \in EngineParseTx(call.txid, call.includeRaw, failedLookups) :
       IF out.ok
       THEN Respond(JsonData(out.value)) /\ UNCHANGED <<err, nexted>>
       ELSE \E carried \in CarriedStatuses :
              NextError(ThrownError(out, carried), carried) /\ UNCHANGED <<res, sent>>
  /\ UNCHANGED <<req, utxoSet, call, calls, feeProbe, aux>>

ParseTxFromRaw ==
  /\ pc = "recv"
  /\ req.op = "parseTxFromRaw"
  /\ CallService(ParseCall("parseTxFromRawTx", "", req.rawTxHex, req.includeRaw))
  /\ UNCHANGED <<req, utxoSet, err, nexted, res, sent, feeProbe, aux>>

ParseTxFromRawSettle ==
  /\ pc = "await"
  /\ call.fn = "parseTxFromRawTx"
  /\ \E out \in EngineParseTxFromRawTx(call.rawTxHex, call.includeRaw, failedLookups) :
       IF out.ok
       THEN Respond(JsonData(out.value)) /\ UNCHANGED <<err, nexted>>
       ELSE \E carried \in CarriedStatuses :
              NextError(ThrownError(out, carried), carried) /\ UNCHANGED <<res, sent>>
  /\ UNCHANGED <<req, utxoSet, call, calls, feeProbe, aux>>

(***************************************************************************)
(* transactionController.submitRawTx                                       *)
(***************************************************************************)
SubmitBadRequestMessages ==
  {"Failed to submit transaction: 400", "Callback URL cannot be provided when",
   "Raw transaction is required"}

SubmitErrorStatus(m) ==
  IF \E fragment \in SubmitBadRequestMessages : Includes(m, fragment)
  THEN 400 ELSE 500

SubmitRawTx ==
  /\ pc = "recv"
  /\ req.op = "submitRawTx"
  /\ IF ~Truthy(req.rawTxHex)
     THEN /\ Respond(JsonMessage(400, Msg("Missing rawTxHex", NoArg)))
          /\ UNCHANGED <<call, calls, err, nexted>>
     ELSE /\ CallService(Call("submitRawTx", "", Undefined, req.rawTxHex, NoRequest))
          /\ UNCHANGED <<err, nexted, res, sent>>
  /\ UNCHANGED <<req, utxoSet, feeProbe, aux>>

SubmitRawTxSettle ==
  /\ pc = "await"
  /\ call.fn = "submitRawTx"
  /\ \E out \in EngineSubmitRawTx(call.rawTxHex) :
       IF out.ok
       THEN Respond(JsonData(out.value)) /\ UNCHANGED <<err, nexted>>
       ELSE \E carried \in CarriedStatuses :
              NextError(ThrownError(out, carried),
                      StatusCodeSet(carried, SubmitErrorStatus(out.message))) /\ UNCHANGED <<res, sent>>
  /\ UNCHANGED <<req, utxoSet, call, calls, feeProbe, aux>>

(***************************************************************************)
(* configController.getConfig                                              *)
(***************************************************************************)
\* a controller that strips the fee tiers from the object it was handed
ConfigAfterReadStripped(c) == [c EXCEPT !.fees = <<>>]

\* the configuration after res.json({ success: true, data: config }): the
\* object is serialised, not written to
ConfigAfterRead(c) == c

GetConfig ==
  /\ pc = "recv"
  /\ req.op = "getConfig"
  /\ CallService([fn |-> "config"])
  /\ UNCHANGED <<req, utxoSet, err, nexted, res, sent, feeProbe, aux>>

GetConfigSettle ==
  /\ pc = "await"
  /\ call.fn = "config"
  /\ \E out \in EngineConfig(config) :
       IF out.ok
       THEN /\ Respond(JsonData(out.value))
            /\ config' = ConfigAfterRead(config)
            /\ UNCHANGED <<err, nexted>>
       ELSE /\ \E carried \in CarriedStatuses :
                    NextError(ThrownError(out, carried), carried)
            /\ UNCHANGED <<res, sent, config>>
  /\ UNCHANGED <<req, utxoSet, call, calls, feeProbe, failedLookups, sourceMode,
                  selectAll, last, http, parked>>

(***************************************************************************)
(* transactionController.transfer                                          *)
(***************************************************************************)
TransferBadRequestMessages ==
  {"Invalid recipient address", "Invalid WIF key", "Invalid amount for",
   "minimum transfer amount is", "Invalid amount: total must be greater than 0"}

TransferErrorStatus(m) ==
  IF \E fragment \in TransferBadRequestMessages : Includes(m, fragment)
  THEN 400 ELSE 500

Transfer ==
  /\ pc = "recv"
  /\ req.op = "transfer"
  /\ IF req.request.t = "undefined" \/ ~Truthy(req.wif)
     THEN /\ Respond(JsonMessage(400, Msg("Missing request or wif", NoArg)))
          /\ UNCHANGED <<call, calls, err, nexted>>
     ELSE /\ CallService(TransferCall(req.request, req.wif, req.transferOptions))
          /\ UNCHANGED <<err, nexted, res, sent>>
  /\ UNCHANGED <<req, utxoSet, feeProbe, aux>>

TransferSettle ==
  /\ pc = "await"
  /\ call.fn = "transfer"
  /\ \E out \in EngineTransfer(call.request, call.wif, call.transferOptions) :
       IF out.ok
       THEN Respond(JsonData(out.value)) /\ UNCHANGED <<err, nexted>>
       ELSE \E carried \in CarriedStatuses :
              NextError(ThrownError(out, carried),
                      StatusCodeSet(carried, TransferErrorStatus(out.message)))
            /\ UNCHANGED <<res, sent>>
  /\ UNCHANGED <<req, utxoSet, call, calls, feeProbe, aux>>

(***************************************************************************)
(* configController.toAtomicAmount and fromAtomicAmount: synchronous, the  *)
(* service call and the response happen in one step.                       *)
(***************************************************************************)
MneeServiceToAtomicAmount(amount) == EngineToAtomicAmount(amount)

MneeServiceFromAtomicAmount(atomicAmount) == EngineFromAtomicAmount(atomicAmount)

ToAtomicAmount ==
  /\ pc = "recv"
  /\ req.op = "toAtomicAmount"
  /\ IF TypeOf(req.amount) # "number"
     THEN /\ Respond(JsonError(400, Msg("Amount must be a number", NoArg)))
          /\ UNCHANGED <<call, calls, err, nexted>>
     ELSE /\ call' = Call("toAtomicAmount", "", req.amount, Undefined, NoRequest)
          /\ calls' = calls + 1
          /\ LET out == MneeServiceToAtomicAmount(req.amount)
             IN  IF out.ok
                 THEN Respond(JsonData(out.value)) /\ UNCHANGED <<err, nexted>>
                 ELSE /\ \E carried \in CarriedStatuses :
                           NextError(ThrownError(out, carried), carried)
                      /\ UNCHANGED <<res, sent>>
  /\ UNCHANGED <<req, utxoSet, feeProbe, aux>>

FromAtomicAmount ==
  /\ pc = "recv"
  /\ req.op = "fromAtomicAmount"
  /\ IF TypeOf(req.amount) # "number"
     THEN /\ Respond(JsonError(400, Msg("Atomic amount must be a number", NoArg)))
          /\ UNCHANGED <<call, calls, err, nexted>>
     ELSE /\ call' = Call("fromAtomicAmount", "", req.amount, Undefined, NoRequest)
          /\ calls' = calls + 1
          /\ LET out == MneeServiceFromAtomicAmount(req.amount)
             IN  IF out.ok
                 THEN Respond(JsonData(out.value)) /\ UNCHANGED <<err, nexted>>
                 ELSE /\ \E carried \in CarriedStatuses :
                           NextError(ThrownError(out, carried), carried)
                      /\ UNCHANGED <<res, sent>>
  /\ UNCHANGED <<req, utxoSet, feeProbe, aux>>

(***************************************************************************)
(* middleware/errorHandler                                                 *)
(***************************************************************************)
\* a handler that hides the error's message
ErrorResponseGeneric(e) ==
  JsonMessage(IF e.statusCode # 0 THEN e.statusCode ELSE 500,
              Msg("Internal Server Error", NoArg))

ErrorResponse(e) ==
  JsonMessage(IF e.statusCode # 0 THEN e.statusCode ELSE 500,
              IF e.message.text # "" THEN e.message
              ELSE Msg("Internal Server Error", NoArg))

ErrorHandler ==
  /\ pc = "errorHandler"
  /\ Respond(ErrorResponse(err))
  /\ UNCHANGED <<req, utxoSet, call, calls, err, nexted, feeProbe, aux>>

\* the connection closes; the server waits for the next request
Finish ==
  /\ pc = "done"
  /\ pc' = "idle"
  /\ req' = NoReq
  /\ utxoSet' = <<>>
  /\ call' = NoCall
  /\ err' = NoErr
  /\ res' = NoRes
  /\ calls' = 0
  /\ nexted' = 0
  /\ sent' = 0
  /\ failedLookups' = {}
  /\ sourceMode' = "paged"
  /\ selectAll' = NoLoop
  /\ last' \in {NoLast,
                IF req.op \in ObservedOps /\ res.success
                THEN [req |-> req, utxoSet |-> utxoSet,
                      failedLookups |-> failedLookups, data |-> res.data]
                ELSE IF /\ ~res.success
                        /\ req.op \in FailureMarkedOps
                        /\ last \in {NoLast, FailedLast}
                THEN FailedLast
                ELSE last}
  /\ http' = NoHttp
  /\ UNCHANGED <<feeProbe, config, parked>>

Next ==
  \/ ReceiveEnough
  \/ ReceiveValidate
  \/ ReceiveRawTx
  \/ ReceiveParseFromRaw
  \/ ReceiveParseTx
  \/ ReceivePage
  \/ ReceiveAll
  \/ ReceiveWithHeaders
  \/ ReceiveConfig
  \/ ReceiveTransfer
  \/ ReceiveToAtomic
  \/ ReceiveFromAtomic
  \/ ContentTypeCheck
  \/ ValidateQueryParams
  \/ GetEnoughUtxos
  \/ GetEnoughUtxosSettle
  \/ GetUtxos
  \/ GetUtxosSettle
  \/ GetAllUtxos
  \/ FetchPage
  \/ GetAllUtxosSettle
  \/ ValidateMneeTx
  \/ ValidateMneeTxSettle
  \/ ParseTx
  \/ ParseTxSettle
  \/ ParseTxFromRaw
  \/ ParseTxFromRawSettle
  \/ SubmitRawTx
  \/ SubmitRawTxSettle
  \/ GetConfig
  \/ GetConfigSettle
  \/ Transfer
  \/ TransferSettle
  \/ ToAtomicAmount
  \/ FromAtomicAmount
  \/ ErrorHandler
  \/ Finish

Spec == Init /\ [][Next]_vars

(***************************************************************************)
(* The select-all requests alone.  Node runs a handler that can run, and   *)
(* a pending fetch is answered: every enabled step is eventually taken.    *)
(***************************************************************************)
SelectAllNext ==
  \/ ReceiveAll
  \/ GetAllUtxos
  \/ FetchPage
  \/ GetAllUtxosSettle
  \/ ErrorHandler
  \/ Finish

SelectAllSpec == Init /\ [][SelectAllNext]_vars /\ WF_vars(SelectAllNext)

(***************************************************************************)
(* The fee lookup of the engine, applied to amounts of the whole domain.   *)
(***************************************************************************)
FeeAmounts ==
  { a \in { Big(hi, lo) : hi \in {0, 1, 45035996, 90071991, 90071992},
                          lo \in (0..MaxFeeLow) \cup
                                 {999999, 1000000, 1000001, 1000002, 54740990,
                                  54740991, 99999999} }
    : BigLe(a, MaxSafeInteger) }

FeeFor ==
  /\ \E a \in FeeAmounts :
       feeProbe' = [asked |-> TRUE, amount |-> a, outcome |-> EngineFeeFor(a)]
  /\ UNCHANGED <<pc, req, utxoSet, call, calls, err, nexted, res, sent, aux>>

FeeNext == FeeFor

FeeSpec == Init /\ [][FeeNext]_vars

(***************************************************************************)
(* Requests in flight together.  Node runs one handler at a time; a        *)
(* handler gives way at its await, and the event loop then takes up a new  *)
(* request or the continuation of a waiting one.  What a handler holds is  *)
(* its own req, res and locals; the MneeService singleton holds its client *)
(* and nothing of a call.                                                  *)
(***************************************************************************)
\* the requests in flight at a time
MaxInFlight == 2

\* what the running handler holds, with what the collaborators hold for it
Context ==
  [pc |-> pc, req |-> req, utxoSet |-> utxoSet, call |-> call, err |-> err,
   res |-> res, calls |-> calls, nexted |-> nexted, sent |-> sent,
   failedLookups |-> failedLookups, sourceMode |-> sourceMode,
   selectAll |-> selectAll, http |-> http]

\* no handler running
NoContext ==
  [pc |-> "idle", req |-> NoReq, utxoSet |-> <<>>, call |-> NoCall, err |-> NoErr,
   res |-> NoRes, calls |-> 0, nexted |-> 0, sent |-> 0, failedLookups |-> {},
   sourceMode |-> "paged", selectAll |-> NoLoop, http |-> NoHttp]

\* the event loop runs the handler that holds c
Run(c) ==
  /\ pc' = c.pc
  /\ req' = c.req
  /\ utxoSet' = c.utxoSet
  /\ call' = c.call
  /\ err' = c.err
  /\ res' = c.res
  /\ calls' = c.calls
  /\ nexted' = c.nexted
  /\ sent' = c.sent
  /\ failedLookups' = c.failedLookups
  /\ sourceMode' = c.sourceMode
  /\ selectAll' = c.selectAll
  /\ http' = c.http

Without(q, j) == SubSeq(q, 1, j - 1) \o SubSeq(q, j + 1, Len(q))

\* a service that keeps the arguments of its latest call on the singleton:
\* the continuation goes on with those of the call made last beside it
ResumedWithSharedCall(ctx, others) ==
  IF others = <<>> THEN ctx ELSE [ctx EXCEPT !.call = others[Len(others)].call]

\* what a continuation goes on with, others being the calls that wait
\* beside it: the arguments and locals of its own call
Resumed(ctx, others) == ctx

\* the requests that are in flight together
InFlightProbes ==
  { [req |-> Req("getEnoughUtxos", "X", Str(<<"2">>), Undefined, NoRequest),
     utxoSet |-> <<Utxo(1, 1), Utxo(2, 2)>>],
    [req |-> Req("getEnoughUtxos", "Y", Str(<<"1">>), Undefined, NoRequest),
     utxoSet |-> <<Utxo(1, 3)>>],
    [req |-> Req("getEnoughUtxos", "bad", Str(<<"1">>), Undefined, NoRequest),
     utxoSet |-> <<>>],
    [req |-> Req("getAllUtxos", "X", Undefined, Undefined, NoRequest),
     utxoSet |-> <<Utxo(1, 1), Utxo(2, 2), Utxo(3, 1)>>],
    [req |-> Req("getAllUtxos", "Y", Undefined, Undefined, NoRequest),
     utxoSet |-> <<Utxo(1, 2)>>],
    [req |-> TransferReq(ArrayOf(<<>>), Str(<<"w">>), Undefined), utxoSet |-> <<>>],
    [req |-> TransferReq(ArrayOf(<<>>), Undefined, Undefined), utxoSet |-> <<>>],
    [req |-> [op |-> "getConfig"], utxoSet |-> <<>>] }

\* a request arrives while fewer than MaxInFlight are in flight
ReceiveInFlight ==
  /\ pc = "idle"
  /\ last = NoLast
  /\ Len(parked) + 1 <= MaxInFlight
  /\ \E p \in InFlightProbes : Accept(p.req, p.utxoSet)

\* the running handler reaches its await and gives way
Park ==
  /\ pc = "await"
  /\ parked' = Append(parked, Context)
  /\ Run(NoContext)
  /\ UNCHANGED <<feeProbe, last, config>>

\* the awaited call of a waiting handler settles: its continuation runs
Resume ==
  /\ pc = "idle"
  /\ \E j \in 1..Len(parked) :
       /\ Run(Resumed(parked[j], Without(parked, j)))
       /\ parked' = Without(parked, j)
  /\ UNCHANGED <<feeProbe, last, config>>

ConcurrentNext ==
  \/ ReceiveInFlight
  \/ Park
  \/ Resume
  \/ GetEnoughUtxos
  \/ GetEnoughUtxosSettle
  \/ GetAllUtxos
  \/ FetchPage
  \/ GetAllUtxosSettle
  \/ GetConfig
  \/ GetConfigSettle
  \/ Transfer
  \/ TransferSettle
  \/ ErrorHandler
  \/ Finish

ConcurrentSpec == Init /\ [][ConcurrentNext]_vars

(***************************************************************************)
(* Properties.                                                             *)
(***************************************************************************)
\* the controller of the request has been invoked: the request is with it,
\* or it is answered and not by a middleware
HandlerInvoked ==
  \/ pc \in {"recv", "await", "errorHandler"}
  \/ pc = "done" /\ res.message.text \notin {"Invalid query parameter(s): ",
                                              MsgInvalidContentType.text}

\* the request went to the controller of op and is answered
Done(op) == pc = "done" /\ req.op = op /\ HandlerInvoked

Front(q) == SubSeq(q, 1, Len(q) - 1)

\* C1: when the candidates of the address cover the target, getEnoughUtxos
\* answers with a prefix of the candidates, in source order, whose sum
\* reaches the target while the sum without its last element does not; the
\* only other answer is the failure of the UTXO source itself.
SelectReturnsMinimalPrefix ==
  Done("getEnoughUtxos") =>
    LET target == NumberOf(req.amount)
    IN  target.k # "nan" =>
          /\ res.success =>
               /\ res.data \in Prefixes(utxoSet)
               /\ GeNum(SumAmt(res.data), target)
               /\ res.data # <<>> => ~GeNum(SumAmt(Front(res.data)), target)
          /\ ( /\ req.address \in ValidAddresses
               /\ Truthy(req.amount)
               /\ GeNum(SumAmt(utxoSet), target) )
             => (res.success \/ res.message = MsgFetchFailed)

SelectStopsInsideTheList ==
  /\ Done("getEnoughUtxos")
  /\ res.success
  /\ Len(res.data) = 2
  /\ Len(utxoSet) = 3

\* C2: when the candidates of the address fall short of the target,
\* getEnoughUtxos returns no subset: the client gets an error envelope whose
\* message is the InsufficientBalance failure carrying the total of all
\* candidates (or the failure of the UTXO source itself).
InsufficientBalanceReported ==
  ( /\ Done("getEnoughUtxos")
    /\ req.address \in ValidAddresses
    /\ NumberOf(req.amount).k # "nan"
    /\ ~GeNum(SumAmt(utxoSet), NumberOf(req.amount)) )
  => /\ ~res.success
     /\ res.keys = {"success", "message"}
     /\ res.message \in {MsgInsufficient(SumAmt(utxoSet)), MsgFetchFailed}

InsufficientBalanceSeen ==
  /\ Done("getEnoughUtxos")
  /\ SumAmt(utxoSet) > 0
  /\ res.message = MsgInsufficient(SumAmt(utxoSet))

\* a request array every entry of which is an object with a non-blank string
\* address and a positive finite amount
WellFormedExpected(request) ==
  /\ request.t = "array"
  /\ request.items # <<>>
  /\ \A j \in 1..Len(request.items) :
       LET e == request.items[j]
       IN  /\ e.t = "object"
           /\ e.address.t = "string" /\ Trim(e.address.s) # <<>>
           /\ IsFiniteNum(e.amount) /\ ~e.amount.neg /\ ~IsZero(e.amount)

BadCosigner(h) == DecodeValue(h).decoded /\ ~CosignedByApprover(DecodeValue(h))
GoodCosigner(h) == DecodeValue(h).decoded /\ CosignedByApprover(DecodeValue(h))

\* C3: a validate request for a decoded transaction with a token output whose
\* cosigner key is not the approver key never answers isValid; with no
\* expected recipients or a well-formed list of them it fails with the
\* InvalidCosigner error, reported as a 400.
InvalidCosignerIsAnError ==
  (Done("validateMneeTx") /\ BadCosigner(req.rawTxHex)) =>
     /\ ~res.success
     /\ "data" \notin res.keys
     /\ (req.request.t = "undefined" \/ WellFormedExpected(req.request))
        => (res.status = 400 /\ res.message = MsgInvalidCosigner)

InvalidCosignerSeen ==
  /\ Done("validateMneeTx")
  /\ req.rawTxHex = Str(<<"b", "b">>)
  /\ WellFormedExpected(req.request)
  /\ res.message = MsgInvalidCosigner

\* C4: for a decoded, correctly cosigned transaction and a well-formed list
\* of expected recipients, validate answers 200 with isValid true exactly
\* when every expected entry is met by a token output of the same address
\* whose atomic amount is toAtomic of the entry's amount; 39900 to X is met
\* by 0.399 and not by 0.400.
DeepValidationResult ==
  ( /\ Done("validateMneeTx")
    /\ GoodCosigner(req.rawTxHex)
    /\ WellFormedExpected(req.request) )
  => LET tx == DecodeValue(req.rawTxHex)
         Met(e) == \E j \in 1..Len(tx.outputs) :
                      /\ tx.outputs[j].token
                      /\ <<tx.outputs[j].address>> = e.address.s
                      /\ tx.outputs[j].amt * FracPerAtomic
                           = e.amount.i * FracOne + e.amount.f
     IN  /\ res.status = 200
         /\ res.keys = {"success", "data"}
         /\ res.data = (\A j \in 1..Len(req.request.items) : Met(req.request.items[j]))
         /\ ( /\ req.rawTxHex = Str(<<"a", "a">>)
              /\ req.request.items = <<Item(Str(<<"X">>), Num(FALSE, 0, 3990000))>> )
            => res.data = TRUE
         /\ ( /\ req.rawTxHex = Str(<<"a", "a">>)
              /\ req.request.items = <<Item(Str(<<"X">>), Num(FALSE, 0, 4000000))>> )
            => res.data = FALSE

DeepValidationMismatchSeen ==
  /\ Done("validateMneeTx")
  /\ req.rawTxHex = Str(<<"a", "b">>)
  /\ req.request.items = << Item(Str(<<"X">>), Num(FALSE, 0, 3990000)),
                            Item(Str(<<"Y">>), Num(FALSE, 0, 4000000)) >>
  /\ res.success
  /\ res.data = FALSE

\* C5: a validate or parse-from-raw request whose rawTxHex is not a
\* decodable transaction is answered with a client error (4xx), never with
\* a 500.
MalformedInputIsClientError ==
  ( /\ pc = "done"
    /\ req.op \in {"validateMneeTx", "parseTxFromRaw"}
    /\ ~DecodeValue(req.rawTxHex).decoded )
  => (~res.success /\ res.status >= 400 /\ res.status < 500)

\* C6: the service is only ever called with a rawTxHex that matches
\* /^[0-9a-fA-F]+$/ and has even length.
HexCheckedBeforeDecoding ==
  call.fn \in {"validateMneeTx", "parseTxFromRawTx", "submitRawTx"} =>
     /\ call.rawTxHex.t = "string"
     /\ HexPatternTest(call.rawTxHex.s)
     /\ Len(call.rawTxHex.s) % 2 = 0

\* C7: converting a non-negative integer atomic amount with fromAtomicAmount
\* and the answer back with toAtomicAmount gives the amount again.
RoundTrip ==
  (Done("fromAtomicAmount") /\ IsNonNegative(req.amount) /\ req.amount.f = 0) =>
     /\ res.success
     /\ MneeServiceToAtomicAmount(res.data) = Returned(req.amount.i)

RoundTripSeen ==
  /\ Done("fromAtomicAmount")
  /\ req.amount = IntNum(39900)
  /\ res.success
  /\ res.data = Num(FALSE, 0, 3990000)

\* C8: toAtomicAmount answers the atomic amount nearest to amount * 10^5,
\* which is amount * 10^5 itself for an amount of at most 5 fractional
\* digits (1.5 -> 150000, 0.00001 -> 1, 100 -> 10000000), and
\* fromAtomicAmount answers atomic / 10^5 (150000 -> 1.5).
ConversionIsExact ==
  /\ (Done("toAtomicAmount") /\ IsNonNegative(req.amount)) =>
       LET exact == req.amount.i * FracOne + req.amount.f
       IN  /\ res.success
           /\ 2 * (res.data * FracPerAtomic - exact) <= FracPerAtomic
           /\ 2 * (exact - res.data * FracPerAtomic) <= FracPerAtomic
           /\ req.amount.f % FracPerAtomic = 0 => res.data * FracPerAtomic = exact
           /\ req.amount = Num(FALSE, 1, 5000000) => res.data = 150000
           /\ req.amount = Num(FALSE, 0, 100) => res.data = 1
           /\ req.amount = Num(FALSE, 100, 0) => res.data = 10000000
  /\ (Done("fromAtomicAmount") /\ IsNonNegative(req.amount) /\ req.amount.f = 0) =>
       /\ res.success
       /\ res.data.i * FracOne + res.data.f = req.amount.i * FracPerAtomic
       /\ req.amount = IntNum(150000) => res.data = Num(FALSE, 1, 5000000)

ConversionRoundsUp ==
  /\ Done("toAtomicAmount")
  /\ req.amount = Num(FALSE, 1, 99)
  /\ res.success
  /\ res.data = 100001

\* C9: toAtomicAmount answers no converted value for an amount that is not a
\* finite non-negative number, and fromAtomicAmount none for an amount that
\* is not a non-negative integer; when the amount is a number the failure is
\* InvalidAmount.
InvalidAmountRejected ==
  /\ (Done("toAtomicAmount") /\ ~IsNonNegative(req.amount)) =>
       /\ ~res.success
       /\ "data" \notin res.keys
       /\ TypeOf(req.amount) = "number" => res.message = MsgInvalidAmount
  /\ (Done("fromAtomicAmount") /\ ~(IsNonNegative(req.amount) /\ req.amount.f = 0)) =>
       /\ ~res.success
       /\ "data" \notin res.keys
       /\ TypeOf(req.amount) = "number" => res.message = MsgInvalidAmount

InvalidAmountSeen ==
  /\ Done("toAtomicAmount")
  /\ req.amount = Num(TRUE, 1, 5000000)
  /\ res.message = MsgInvalidAmount

\* C10: the tiers start at 0, follow each other without gap or overlap and
\* end at 2^53 - 1; every amount looked up lies in exactly one tier and gets
\* that tier's fee, 100 up to 1000000 and 1000 above, never NoMatchingFeeTier.
FeeTiersCoverDomain ==
  /\ FeeTiers[1].min = Big(0, 0)
  /\ \A j \in 1..(Len(FeeTiers) - 1) : FeeTiers[j + 1].min = BigSucc(FeeTiers[j].max)
  /\ FeeTiers[Len(FeeTiers)].max = MaxSafeInteger
  /\ feeProbe.asked =>
       /\ Cardinality({ j \in 1..Len(FeeTiers) : InTier(FeeTiers[j], feeProbe.amount) }) = 1
       /\ feeProbe.outcome.ok
       /\ feeProbe.outcome.value
            = IF BigLe(feeProbe.amount, Big(0, 1000000)) THEN 100 ELSE 1000

SecondTierSeen ==
  /\ feeProbe.asked
  /\ feeProbe.amount = Big(0, 1000001)
  /\ feeProbe.outcome = Returned(1000)

(***************************************************************************)
(* Properties of the parse operations.                                     *)
(***************************************************************************)
\* a parse request has been answered with a ParsedTransaction
ParseDone == pc = "done" /\ req.op \in {"parseTx", "parseTxFromRaw"} /\ res.success

\* the raw transaction a parse request is about
RawOfRequest ==
  IF req.op = "parseTxFromRaw" THEN req.rawTxHex
  ELSE Str(CHOOSE s \in KnownRaws : Decode(s).txid = req.txid)

TxOfRequest == DecodeValue(RawOfRequest)

\* the lookups that fail among the inputs the transaction has
FailedInputs(failed) == failed \cap (1..Len(TxOfRequest.inputs))

\* the request asks for the raw form to be included
IncludeRawSet ==
  IF req.op = "parseTxFromRaw" THEN Truthy(req.includeRaw)
  ELSE req.includeRaw = Str(<<"true">>)

\* the remembered exchange parsed the same transaction
ParsedBefore == ParseDone /\ last # NoLast

\* C11: in every ParsedTransaction a parse request is answered with, isValid
\* is true only if every output of the transaction that carries a token has
\* the approver key as its cosigner key, and isValid is false when no output
\* of the transaction carries a token.
IsValidOnlyIfCosigned ==
  ParseDone =>
    LET tx == TxOfRequest
    IN  /\ res.data.isValid =>
             \A j \in 1..Len(tx.outputs) :
                tx.outputs[j].token => tx.outputs[j].cosigner = ApproverKey
        /\ (\A j \in 1..Len(tx.outputs) : ~tx.outputs[j].token) => ~res.data.isValid

UntokenedParsedInvalid ==
  /\ ParseDone
  /\ req.rawTxHex = Str(<<"c", "a">>)
  /\ res.data.type = "unknown"
  /\ ~res.data.isValid

LookupFailureTolerated ==
  /\ (Done("parseTxFromRaw") /\ DecodeValue(req.rawTxHex).decoded) => res.success
  /\ (Done("parseTx") /\ \E s \in KnownRaws : Decode(s).txid = req.txid)
       => (res.success \/ res.message = MsgFetchFailed)
  /\ ParseDone =>
       LET tx == TxOfRequest
       IN  /\ Len(res.data.inputs) = Len(tx.inputs)
           /\ \A j \in 1..Len(tx.inputs) :
                 IF j \in failedLookups
                 THEN res.data.inputs[j][1] = UnknownAddress
                 ELSE res.data.inputs[j] = <<tx.inputs[j].address, tx.inputs[j].amt>>
           /\ res.data.outputs =
                [j \in 1..Len(tx.outputs) |-> <<tx.outputs[j].address, tx.outputs[j].amt>>]
           /\ (last # NoLast /\ FailedInputs(last.failedLookups) = {}) =>
                 /\ res.data.outputs = last.data.outputs
                 /\ \A j \in 1..Len(tx.inputs) :
                       j \notin failedLookups => res.data.inputs[j] = last.data.inputs[j]

OneLookupFailedOfTwo ==
  /\ ParsedBefore
  /\ req.rawTxHex = Str(<<"a", "b">>)
  /\ last.failedLookups = {}
  /\ failedLookups = {1}
  /\ res.data.inputs = << <<UnknownAddress, 0>>, <<"X", 20000>> >>

IncludeRawOnlyAddsRaw ==
  /\ ParseDone => res.data.raw = (IF IncludeRawSet THEN RawOfRequest ELSE Undefined)
  /\ (ParsedBefore /\ FailedInputs(last.failedLookups) = FailedInputs(failedLookups))
       => [res.data EXCEPT !.raw = Undefined] = [last.data EXCEPT !.raw = Undefined]

RawEchoedSecondTime ==
  /\ ParsedBefore
  /\ req.op = "parseTx"
  /\ last.req.includeRaw = Str(<<"false">>)
  /\ req.includeRaw = Str(<<"true">>)
  /\ last.data.raw = Undefined
  /\ res.data.raw = Str(<<"a", "b">>)

(***************************************************************************)
(* Properties of the UTXO pages.                                           *)
(***************************************************************************)
\* a page request has been answered with a window of outputs
PageDone == Done("getUtxos") /\ res.success

\* the remembered exchange asked for the same page of the same size of the
\* same candidates of the same address
PagedBefore == PageDone /\ last # NoLast

\* the size the request asks for, the documented default when it names none
RequestedSize == IF Truthy(req.size) THEN NumberOf(req.size).i ELSE DefaultSize

SelectAllReturnsEveryCandidate ==
  ( /\ Done("getAllUtxos")
    /\ sourceMode = "paged"
    /\ req.address \in ValidAddresses )
  => \/ res.success /\ res.data = utxoSet
     \/ ~res.success /\ res.message = MsgFetchFailed

AllOfThreeInTwoPages ==
  /\ Done("getAllUtxos")
  /\ sourceMode = "paged"
  /\ res.success
  /\ Len(utxoSet) = 3
  /\ selectAll.page = 3
  /\ res.data = utxoSet

\* C19: every select-all request that reaches the engine is answered or
\* fails: the loop does not go on fetching pages for ever.
SelectAllTerminates ==
  (pc = "await" /\ call.fn = "getAllUtxos") ~> (pc \in {"done", "errorHandler"})

(***************************************************************************)
(* Properties of the responses.                                            *)
(***************************************************************************)
\* C20: every response is { success: true, data } or { success: false,
\* message } with a message that is not empty.
ResponseIsEnvelope ==
  pc = "done" =>
     \/ res.success /\ res.keys = {"success", "data"}
     \/ ~res.success /\ res.keys = {"success", "message"} /\ res.message # NoMsg

(***************************************************************************)
(* Properties of the controllers' control flow.                            *)
(***************************************************************************)
InternalServerError == Msg("Internal Server Error", NoArg)

\* the message errorHandler answers with for error e
ForwardedMessage(e) == IF e.message.text # "" THEN e.message ELSE InternalServerError

\* C22: a request makes at most one call of the service; when the call
\* fails, the failure is handed on once and answered with its own message,
\* and no second call is made.
NoRetries ==
  /\ calls <= 1
  /\ nexted > 0 => (calls = 1 /\ pc \in {"errorHandler", "done"})
  /\ (pc = "done" /\ nexted > 0)
       => (~res.success /\ res.message = ForwardedMessage(err))

FailedTransferNotRetried ==
  /\ Done("transfer")
  /\ calls = 1
  /\ nexted = 1
  /\ err.message = MsgFetchFailed
  /\ res.message = MsgFetchFailed

\* C25: a controller invocation ends in one outcome: one response of its
\* own, or one error handed to next() that errorHandler answers once; never
\* both, never two responses, and never neither once the call has settled.
ExactlyOneOutcome ==
  /\ pc \in {"idle", "app", "route", "recv", "await", "errorHandler", "done"}
  /\ sent <= 1
  /\ nexted <= 1
  /\ pc \in {"idle", "app", "route", "recv", "await"} => (sent = 0 /\ nexted = 0)
  /\ pc = "errorHandler" => (sent = 0 /\ nexted = 1)
  /\ pc = "done" => sent = 1
  /\ (pc = "done" /\ nexted = 0) => (res.status = 400 \/ res.success)

BothOutcomesSeen ==
  /\ Done("validateMneeTx")
  /\ calls = 1
  /\ nexted = 1
  /\ sent = 1
  /\ res.status = 400

\* C26: the rawTxHex that validateMneeTx hands to the service is a string
\* that matches /^[0-9a-fA-F]+$/ in full.
ForwardedHexMatchesPattern ==
  (pc = "await" /\ call.fn = "validateMneeTx")
    => (TypeOf(call.rawTxHex) = "string" /\ HexPatternTest(call.rawTxHex.s))

\* C27: getEnoughUtxos calls the service only with a target that is a number
\* of at least 1, the Number() of the amount asked for; every other amount is
\* answered with 400 without a call.
AtLeastOne(n) == n.t = "number" /\ n.k = "finite" /\ ~n.neg /\ n.i >= 1

TargetIsAtLeastOne ==
  /\ (pc = "await" /\ call.fn = "getEnoughUtxos")
       => (AtLeastOne(call.amount) /\ call.amount = NumberOf(req.amount))
  /\ (Done("getEnoughUtxos") /\ ~AtLeastOne(NumberOf(req.amount)))
       => (res.status = 400 /\ calls = 0)

\* C28: when the service call of getEnoughUtxos, validateMneeTx or transfer
\* throws, the response has status 400 if the message holds one of the
\* controller's client-error texts and 500 if not, whatever status the error
\* carried, and is { success: false, message } with the error's message.
ClientErrorFragments(op) ==
  CASE op = "getEnoughUtxos" -> {"Invalid Bitcoin address"}
    [] op = "validateMneeTx" -> {"Invalid cosigner detected"}
    [] op = "transfer" ->
         {"Invalid recipient address", "Invalid WIF key", "Invalid amount for",
          "minimum transfer amount is",
          "Invalid amount: total must be greater than 0"}

StatusFollowsMessage ==
  ( /\ pc = "done"
    /\ nexted = 1
    /\ req.op \in {"getEnoughUtxos", "validateMneeTx", "transfer"} )
  => /\ res.status =
          IF \E f \in ClientErrorFragments(req.op) : Includes(err.message, f)
          THEN 400 ELSE 500
     /\ ~res.success
     /\ res.keys = {"success", "message"}
     /\ res.message = err.message

CarriedStatusOverwritten ==
  /\ Done("transfer")
  /\ nexted = 1
  /\ err.carried = 404
  /\ err.message = MsgInvalidRecipient("X")
  /\ res.status = 400

(***************************************************************************)
(* Properties of the configuration.                                        *)
(***************************************************************************)
\* C23: the configuration the service holds is the one it was constructed
\* with in every state, whatever requests were served or failed, and every
\* getConfig that is answered carries it.
ConfigurationIsStatic ==
  /\ config = LoadedConfig
  /\ (Done("getConfig") /\ res.success) => res.data = LoadedConfig

ConfigReadAfterFailure ==
  /\ Done("getConfig")
  /\ last = FailedLast
  /\ res.success
  /\ res.data.fees = FeeTiers

(***************************************************************************)
(* Properties of the middleware.                                           *)
(***************************************************************************)
\* the query keys of the request outside the allowed list of its route
KeysNotAllowed ==
  Range(QueryKeys(req, http)) \ Range(AllowedParams(req.op))

\* C29: on the routes that validate their query, a request with a key
\* outside the allowed list is answered with 400 naming the keys, and its
\* controller and the service are not invoked; a request with allowed keys
\* only gets no response from the middleware and reaches its controller.
QueryKeysValidated ==
  (req.op \in ValidatedOps /\ pc \notin {"idle", "app"}) =>
     IF KeysNotAllowed # {}
     THEN /\ ~HandlerInvoked
          /\ calls = 0
          /\ pc = "done" => /\ res.status = 400
                            /\ ~res.success
                            /\ res.message.text = "Invalid query parameter(s): "
                            /\ Range(res.message.invalid) = KeysNotAllowed
     ELSE pc # "route" => HandlerInvoked

ForeignKeyRejected ==
  /\ pc = "done"
  /\ req.op = "getEnoughUtxos"
  /\ req.amount = Str(<<"1">>)
  /\ http.otherKeys = <<"foo", "size">>
  /\ res.status = 400
  /\ res.message.invalid = <<"foo", "size">>
  /\ res.message.allowed = <<"amount">>

\* C30: a POST request whose Content-Type does not contain application/json
\* is answered with 400 by the application middleware, and neither its
\* route's handlers nor the service run; a request of another method is
\* never answered by this middleware.
ContentTypeEnforcedOnPost ==
  pc \notin {"idle", "app"} =>
     IF http.method = "POST" /\ JsonType \notin Range(http.contentType)
     THEN /\ pc = "done"
          /\ calls = 0
          /\ nexted = 0
          /\ res = JsonMessage(400, MsgInvalidContentType)
     ELSE http.method # "POST" => res.message # MsgInvalidContentType

PostWithoutJsonRejected ==
  /\ pc = "done"
  /\ req.op = "transfer"
  /\ http.contentType = <<"text/plain">>
  /\ res.status = 400
  /\ res.message = MsgInvalidContentType
  /\ calls = 0

\* the responses to an error with message m, thrown with any status of its
\* own, when the catch block sets statusCode (0 when it leaves it)
FailureResponses(m, statusCode) ==
  { ErrorResponse([message |-> m, carried |-> c,
                   statusCode |-> IF statusCode = 0 THEN c ELSE statusCode])
    : c \in CarriedStatuses }

\* the responses to request r when it is the only one in flight and the
\* UTXO source holds us
AloneResponses(r, us) ==
  CASE r.op = "getEnoughUtxos" ->
         IF r.address = "" \/ ~Truthy(r.amount)
         THEN {JsonMessage(400, Msg("Address and amount are required", NoArg))}
         ELSE UNION { IF out.ok THEN {JsonData(out.value)}
                      ELSE FailureResponses(out.message,
                                            AddressErrorStatus(out.message))
                      : out \in EngineGetEnoughUtxos(r.address, NumberOf(r.amount), us) }
    [] r.op = "getAllUtxos" ->
         IF r.address = ""
         THEN {JsonMessage(400, Msg("Address is required", NoArg))}
         ELSE UNION { IF out.ok THEN {JsonData(us)}
                      ELSE FailureResponses(out.message,
                                            AddressErrorStatus(out.message))
                      : out \in EngineGetUtxos(r.address, IntNum(1), IntNum(MaxPerFetch),
                                               Undefined, us, "paged") }
    [] r.op = "transfer" ->
         IF r.request.t = "undefined" \/ ~Truthy(r.wif)
         THEN {JsonMessage(400, Msg("Missing request or wif", NoArg))}
         ELSE UNION { IF out.ok THEN {JsonData(out.value)}
                      ELSE FailureResponses(out.message,
                                            TransferErrorStatus(out.message))
                      : out \in EngineTransfer(r.request, r.wif, r.transferOptions) }
    [] r.op = "getConfig" ->
         UNION { IF out.ok THEN {JsonData(out.value)}
                 ELSE FailureResponses(out.message, 0)
                 : out \in EngineConfig(LoadedConfig) }

\* C24: whatever requests are in flight beside it and however the event
\* loop interleaves them, a request gets one of the responses it gets when
\* it is alone with the same state of the UTXO source, and a request that
\* waits keeps its own request and its own call.
NonInterference ==
  /\ pc = "done" => res \in AloneResponses(req, utxoSet)
  /\ \A j \in 1..Len(parked) :
        /\ parked[j].pc = "await"
        /\ parked[j].call.fn = IF parked[j].req.op = "getConfig" THEN "config"
                               ELSE parked[j].req.op

\* a select-all request of three outputs is answered with all of them after
\* its loop of several awaits, while a transfer made meanwhile still waits
AnsweredWhileAnotherWaits ==
  /\ pc = "done"
  /\ req.op = "getAllUtxos"
  /\ Len(utxoSet) = 3
  /\ res = JsonData(utxoSet)
  /\ Len(parked) = 1
  /\ parked[1].req.op = "transfer"
  /\ parked[1].calls = 1

====
